---- MODULE Spec2Model ----
(***************************************************************************)
(* Conversation-memory subsystem of adk-agent-neo4j:                       *)
(*   agent/memory.py          MemoryEntry, PostgresMemory, FirestoreMemory,*)
(*                            get_memory_backend, switch_memory_backend    *)
(*   agent/tools/mcp_tools.py memory_save, memory_query, memory_switch     *)
(*                                                                         *)
(* Python strings that the code inspects (kinds, texts, speakers, queries) *)
(* are sequences of one-character strings, so that str.lower(), the `in`   *)
(* operator and SQL ILIKE are computed character by character.  Opaque     *)
(* strings (session ids, DSNs, project ids) are TLA+ strings.              *)
(***************************************************************************)
EXTENDS Integers, Sequences, FiniteSets, TLC

VARIABLES
    env,              \* os.environ: MEMORY_BACKEND, POSTGRES_DSN, FIRESTORE_PROJECT
    _memory_backend,  \* memory.py:159: None or the active backend object
    constructed,      \* how many backend objects have been constructed so far
    pg,               \* conversation_memory table of each Postgres database (by DSN)
    pgSchema,         \* the DSNs whose conversation_memory table exists
    fs,               \* conversation_memory collection of each Firestore project
    now,              \* the wall clock read by now_iso()
    lastResult,       \* what the last finished call did and returned or raised
    lastSwitch,       \* the last memory_switch that returned ok: true, if any
    pc,               \* position of each concurrent request
    loc               \* local variables of each concurrent request

vars == <<env, _memory_backend, constructed, pg, pgSchema, fs, now, lastResult, lastSwitch, pc, loc>>

(***************************************************************************)
(* Bounds                                                                  *)
(***************************************************************************)
MaxClock == 2       \* the clock readings 1..MaxClock that now_iso() can return
MaxInstances == 2   \* backend objects constructed in one behaviour

Sessions == {"s1", "s2"}
Dsns == {"dsn1", "dsn2"}
Projects == {"proj1"}
Metas == {"m0", "m1"}
Procs == {"r1", "r2"}

NoValue == "none"        \* None, an unset environment variable, a missing dict key
Unset == <<"<unset>">>   \* os.getenv("MEMORY_BACKEND") finds no such variable
\* _memory_backend is None
None == [id |-> 0, cls |-> "None", param |-> NoValue, by |-> NoValue]

(***************************************************************************)
(* Strings                                                                 *)
(***************************************************************************)
postgres == <<"p","o","s","t","g","r","e","s">>
firestore == <<"f","i","r","e","s","t","o","r","e">>
user == <<"u","s","e","r">>
assistant == <<"a","s","s","i","s","t","a","n","t">>

\* str.lower() on one character (the upper-case letters the model uses)
LowerChar(c) ==
    CASE c = "A" -> "a"
      [] c = "B" -> "b"
      [] c = "F" -> "f"
      [] c = "U" -> "u"
      [] OTHER -> c

\* str.lower()
Lower(s) == [i \in DOMAIN s |-> LowerChar(s[i])]

\* Python's `q in s` on strings
Contains(q, s) ==
    \E i \in 0..(Len(s) - Len(q)) : SubSeq(s, i + 1, i + Len(q)) = q

\* SQL LIKE: % matches any run of characters, _ matches any one character
RECURSIVE LikeMatch(_, _)
LikeMatch(pat, s) ==
    IF pat = <<>> THEN s = <<>>
    ELSE IF Head(pat) = "%"
         THEN LikeMatch(Tail(pat), s) \/ (s # <<>> /\ LikeMatch(pat, Tail(s)))
    ELSE IF s = <<>> THEN FALSE
    ELSE (Head(pat) = "_" \/ Head(pat) = Head(s)) /\ LikeMatch(Tail(pat), Tail(s))

\* SQL ILIKE: LIKE, ignoring case
ILike(s, pat) == LikeMatch(Lower(pat), Lower(s))

\* Texts and queries of the model
hi == <<"h","i">>
Ab == <<"A","b">>
QueryTexts == { <<>>, <<"a">>, <<"_">>, <<"U">> }

\* Backend kinds a caller may request, and values MEMORY_BACKEND may hold
bogus == <<"b","o","g","u","s">>
RequestedKinds ==
    { postgres, <<"F","i","r","e","s","t","o","r","e">>, bogus, <<"B","o","g","u","s">> }

(***************************************************************************)
(* MemoryEntry and the two backends (memory.py:12-156)                     *)
(***************************************************************************)
MemoryEntry(session_id, turn, speaker, text, timestamp, metadata) ==
    [session_id |-> session_id, turn |-> turn, speaker |-> speaker,
     text |-> text, timestamp |-> timestamp, metadata |-> metadata]

SameKey(r, entry) == r.session_id = entry.session_id /\ r.turn = entry.turn

\* INSERT ... ON CONFLICT DO NOTHING: the first row written under a key stays
PostgresMemory_save_keep_first(rows, entry) ==
    IF \E r \in rows : SameKey(r, entry) THEN rows ELSE rows \cup {entry}

\* INSERT ... ON CONFLICT (session_id, turn) DO UPDATE SET speaker, text,
\* timestamp, metadata = EXCLUDED.*  (memory.py:56-78)
PostgresMemory_save(rows, entry) ==
    IF \E r \in rows : SameKey(r, entry)
    THEN { IF SameKey(r, entry)
           THEN [r EXCEPT !.speaker = entry.speaker, !.text = entry.text,
                          !.timestamp = entry.timestamp, !.metadata = entry.metadata]
           ELSE r : r \in rows }
    ELSE rows \cup {entry}

\* f"pg:{entry.session_id}:{entry.turn}"
PostgresMemory_save_id(entry) ==
    [ns |-> "pg", session_id |-> entry.session_id, turn |-> entry.turn]

\* doc_id = f"{entry.session_id}:{entry.turn}" (turn is an int, so the pair
\* can be read back from the string: the id is the pair)
doc_id(entry) == <<entry.session_id, entry.turn>>

\* a save that replaces every document of the session by the new one
FirestoreMemory_save_session(docs, entry) ==
    { d \in docs : d.data.session_id # entry.session_id }
        \cup { [id |-> doc_id(entry), data |-> entry] }

\* self._collection.document(doc_id).set({...}): the whole document is replaced
FirestoreMemory_save(docs, entry) ==
    { d \in docs : d.id # doc_id(entry) }
        \cup { [id |-> doc_id(entry), data |-> entry] }

\* f"fs:{doc_id}"
FirestoreMemory_save_id(entry) ==
    [ns |-> "fs", session_id |-> entry.session_id, turn |-> entry.turn]

\* ORDER BY turn DESC / order_by("turn", DESCENDING) over a set of records
RECURSIVE OrderByTurnDesc(_)
OrderByTurnDesc(rows) ==
    IF rows = {} THEN <<>>
    ELSE LET top == CHOOSE r \in rows : \A o \in rows : o.turn <= r.turn
         IN  <<top>> \o OrderByTurnDesc(rows \ {top})

\* a query that forgets its LIMIT
Limit_none(seq, n) == seq

\* LIMIT n / .limit(n): the first n elements
Limit(seq, n) == SubSeq(seq, 1, IF n < Len(seq) THEN n ELSE Len(seq))

\* the dict appended to matches (memory.py:98-102, 148-152)
Match(r) == [turn |-> r.turn, text |-> r.text, timestamp |-> r.timestamp]

\* WHERE session_id = %s AND (text ILIKE %s OR speaker ILIKE %s), like = f"%{query}%"
PostgresMemory_where(rows, session_id, query) ==
    LET like == <<"%">> \o query \o <<"%">>
    IN  { r \in rows : /\ r.session_id = session_id
                       /\ (ILike(r.text, like) \/ ILike(r.speaker, like)) }

\* PostgresMemory.query (memory.py:81-104)
PostgresMemory_query(rows, session_id, query, limit) ==
    LET fetched == Limit(OrderByTurnDesc(PostgresMemory_where(rows, session_id, query)), limit)
    IN  [i \in 1..Len(fetched) |-> Match(fetched[i])]

\* the client-side loop of FirestoreMemory.query (memory.py:139-156)
RECURSIVE FirestoreMemory_filter(_, _, _, _)
FirestoreMemory_filter(docs, q, limit, matches) ==
    IF docs = <<>> THEN matches
    ELSE LET data == Head(docs)
         IN  IF Contains(q, Lower(data.text)) \/ Contains(q, Lower(data.speaker))
             THEN LET more == Append(matches, Match(data))
                  IN  IF Len(more) >= limit THEN more
                      ELSE FirestoreMemory_filter(Tail(docs), q, limit, more)
             ELSE FirestoreMemory_filter(Tail(docs), q, limit, matches)

\* FirestoreMemory.query (memory.py:131-156)
FirestoreMemory_query(docs, session_id, query, limit) ==
    LET found == { d.data : d \in { x \in docs : x.data.session_id = session_id } }
        stream == Limit(OrderByTurnDesc(found), limit * 2)
    IN  FirestoreMemory_filter(stream, Lower(query), limit, <<>>)

(***************************************************************************)
(* Backend construction (memory.py:31-35, 108-115).  Each operator is the  *)
(* set of outcomes of one call: [raised, obj, schema].                     *)
(***************************************************************************)
Raised == [raised |-> TRUE, obj |-> NoValue, schema |-> {}]

\* PostgresMemory.__init__: self._dsn = dsn or os.getenv("POSTGRES_DSN");
\* ValueError when empty; _ensure_schema() connects (which may fail) and
\* commits CREATE TABLE IF NOT EXISTS
PostgresMemory_init(dsn) ==
    LET _dsn == IF dsn # NoValue THEN dsn ELSE env.POSTGRES_DSN
    IN  IF _dsn = NoValue THEN {Raised}
        ELSE {Raised} \cup
             { [raised |-> FALSE, schema |-> {_dsn},
                obj |-> [cls |-> "PostgresMemory", param |-> _dsn]] }

\* FirestoreMemory.__init__: self._project = project or os.getenv("FIRESTORE_PROJECT");
\* ValueError when empty; firestore.Client(...) may fail
FirestoreMemory_init(project) ==
    LET _project == IF project # NoValue THEN project ELSE env.FIRESTORE_PROJECT
    IN  IF _project = NoValue THEN {Raised}
        ELSE {Raised} \cup
             { [raised |-> FALSE, schema |-> {},
                obj |-> [cls |-> "FirestoreMemory", param |-> _project]] }

(***************************************************************************)
(* The registry (memory.py:159-194).  Each operator is the set of outcomes *)
(* of one call from the current state:                                     *)
(*   [raised, value, mb, constructed, pgSchema, env]                       *)
(* mb, constructed, pgSchema and env are what the call leaves behind.      *)
(***************************************************************************)
Outcome(raised, value, mb, n, schema, e) ==
    [raised |-> raised, value |-> value, mb |-> mb, constructed |-> n,
     pgSchema |-> schema, env |-> e]

\* an assignment that binds a local name instead of the global one
Assigned_local(made, by, e) ==
    { IF c.raised
      THEN Outcome(TRUE, None, _memory_backend, constructed, pgSchema, e)
      ELSE LET obj == [id |-> constructed + 1, cls |-> c.obj.cls,
                       param |-> c.obj.param, by |-> by]
           IN  Outcome(FALSE, obj, _memory_backend, constructed + 1,
                       pgSchema \cup c.schema, e)
      : c \in { x \in made : x.raised \/ constructed < MaxInstances } }

\* the outcomes of `_memory_backend = Cls(...)` with the environment e: a failed
\* constructor raises before the assignment; value is the new object
Assigned(made, by, e) ==
    { IF c.raised
      THEN Outcome(TRUE, None, _memory_backend, constructed, pgSchema, e)
      ELSE LET obj == [id |-> constructed + 1, cls |-> c.obj.cls,
                       param |-> c.obj.param, by |-> by]
           IN  Outcome(FALSE, obj, obj, constructed + 1, pgSchema \cup c.schema, e)
      : c \in { x \in made : x.raised \/ constructed < MaxInstances } }

\* a switch that constructs the new backend and binds it to a local name
rebound_local(made, e) == Assigned_local(made, "switch_memory_backend", e)

\* `_memory_backend = PostgresMemory(dsn=dsn)` / `FirestoreMemory(project=project)`
\* in switch_memory_backend (memory.py:185, 192)
rebound(made, e) == Assigned(made, "switch_memory_backend", e)

\* `return {...}` after the assignment
Returning(outcomes, value) ==
    { IF o.raised THEN o ELSE [o EXCEPT !.value = value] : o \in outcomes }

\* the body of `if _memory_backend is None:` (memory.py:165-171)
construct_configured ==
    LET backend == Lower(IF env.MEMORY_BACKEND = Unset THEN postgres
                         ELSE env.MEMORY_BACKEND)
    IN  IF backend = postgres
        THEN Assigned(PostgresMemory_init(NoValue), "get_memory_backend", env)
        ELSE IF backend = firestore
        THEN Assigned(FirestoreMemory_init(NoValue), "get_memory_backend", env)
        ELSE { Outcome(TRUE, None, _memory_backend, constructed, pgSchema, env) }

\* a get_memory_backend that constructs a backend on every call
get_memory_backend_always == construct_configured

\* get_memory_backend (memory.py:162-172)
get_memory_backend ==
    IF _memory_backend # None
    THEN { Outcome(FALSE, _memory_backend, _memory_backend, constructed, pgSchema, env) }
    ELSE construct_configured

\* an unrecognized kind that also drops the binding
unsupported_unbinds(target) ==
    { Outcome(FALSE, [ok |-> FALSE, backend |-> target],
              None, constructed, pgSchema, env) }

\* return {"ok": False, "backend": target} (memory.py:194)
unsupported(target) ==
    { Outcome(FALSE, [ok |-> FALSE, backend |-> target],
              _memory_backend, constructed, pgSchema, env) }

\* switch_memory_backend (memory.py:175-194)
switch_memory_backend(target_backend, connection) ==
    LET target == Lower(target_backend)
    IN  IF target = postgres
        THEN LET dsn == IF connection.dsn # NoValue THEN connection.dsn
                        ELSE env.POSTGRES_DSN
                 e1 == [env EXCEPT !.MEMORY_BACKEND = postgres]
                 e2 == IF dsn # NoValue THEN [e1 EXCEPT !.POSTGRES_DSN = dsn] ELSE e1
             IN  Returning(rebound(PostgresMemory_init(dsn), e2),
                           [ok |-> TRUE, backend |-> postgres])
        ELSE IF target = firestore
        THEN LET project == IF connection.project # NoValue THEN connection.project
                            ELSE env.FIRESTORE_PROJECT
                 e1 == [env EXCEPT !.MEMORY_BACKEND = firestore]
                 e2 == IF project # NoValue THEN [e1 EXCEPT !.FIRESTORE_PROJECT = project]
                       ELSE e1
             IN  Returning(rebound(FirestoreMemory_init(project), e2),
                           [ok |-> TRUE, backend |-> firestore])
        ELSE unsupported(target)

\* what a call leaves in the registry
Leaves(o) ==
    /\ _memory_backend' = o.mb
    /\ constructed' = o.constructed
    /\ pgSchema' = o.pgSchema
    /\ env' = o.env

(***************************************************************************)
(* The tools (mcp_tools.py:31-72), each handler as one step                *)
(***************************************************************************)
\* backend.save(entry) on the object inst, in the stores st = [pg, fs]
backend_save(inst, st, entry) ==
    IF inst.cls = "PostgresMemory"
    THEN [st EXCEPT !.pg[inst.param] = PostgresMemory_save(@, entry)]
    ELSE [st EXCEPT !.fs[inst.param] = FirestoreMemory_save(@, entry)]

\* the identifier backend.save(entry) returns
backend_save_id(inst, entry) ==
    IF inst.cls = "PostgresMemory" THEN PostgresMemory_save_id(entry)
    ELSE FirestoreMemory_save_id(entry)

\* backend.query(session_id, query, limit) on the object inst
backend_query(inst, session_id, query, limit) ==
    IF inst.cls = "PostgresMemory"
    THEN PostgresMemory_query(pg[inst.param], session_id, query, limit)
    ELSE FirestoreMemory_query(fs[inst.param], session_id, query, limit)

\* a user entry numbered 2t+1
user_entry_next(session_id, turn, text, timestamp, metadata) ==
    MemoryEntry(session_id, turn * 2 + 1, user, text, timestamp, metadata)

\* user_entry (mcp_tools.py:39-46)
user_entry(session_id, turn, text, timestamp, metadata) ==
    MemoryEntry(session_id, turn * 2 - 1, user, text, timestamp, metadata)

\* an assistant entry numbered like the user entry
assistant_entry_odd(session_id, turn, text, timestamp, metadata) ==
    MemoryEntry(session_id, turn * 2 - 1, assistant, text, timestamp, metadata)

\* assistant_entry (mcp_tools.py:47-54)
assistant_entry(session_id, turn, text, timestamp, metadata) ==
    MemoryEntry(session_id, turn * 2, assistant, text, timestamp, metadata)

\* both saves in one transaction: nothing is kept unless both complete
save_both_atomic(inst, st, ue, ae, ok1, ok2) ==
    IF ok1 /\ ok2 THEN backend_save(inst, backend_save(inst, st, ue), ae) ELSE st

\* the two saves in the other order: the assistant entry first
save_both_assistant_first(inst, st, ue, ae, ok1, ok2) ==
    LET st1 == IF ok1 THEN backend_save(inst, st, ae) ELSE st
    IN  IF ok1 /\ ok2 THEN backend_save(inst, st1, ue) ELSE st1

\* user_id = backend.save(user_entry); assistant_id = backend.save(assistant_entry)
\* (mcp_tools.py:55-56): a save that raises ends the call, what was saved stays
save_both(inst, st, ue, ae, ok1, ok2) ==
    LET st1 == IF ok1 THEN backend_save(inst, st, ue) ELSE st
    IN  IF ok1 /\ ok2 THEN backend_save(inst, st1, ae) ELSE st1

\* the record of a finished call: its input, whether it raised, the value it
\* returned, the backend object it used, the backend.save calls it made, and
\* what it found: the records stored under the keys of those calls (a save),
\* the binding and the environment (a switch)
Result(op, input, raised, value, backend, saves, before) ==
    [op |-> op, input |-> input, raised |-> raised, value |-> value,
     backend |-> backend, saves |-> saves, before |-> before]

\* the records of the object inst's store, as MemoryEntry records
Stored(inst, st) ==
    IF inst.cls = "PostgresMemory" THEN st.pg[inst.param]
    ELSE IF inst.cls = "FirestoreMemory" THEN { d.data : d \in st.fs[inst.param] }
    ELSE {}

Stores == [pg |-> pg, fs |-> fs]

NoDict == [ok |-> FALSE]
\* the local variables of a request that is not running
NoLoc == [op |-> "none"]
NoSwitch == [ok |-> FALSE, backend |-> <<>>, from |-> "None"]

\* memory_save (mcp_tools.py:31-57).  d is the time between the two now_iso()
\* readings; ok1 and ok2 tell whether each backend.save completes or raises.
memory_save(in) ==
    \E o \in get_memory_backend :
        /\ Leaves(o)
        /\ IF o.raised
           THEN /\ lastResult' = Result("memory_save", in, TRUE, NoDict, None, <<>>, {})
                /\ UNCHANGED <<pg, fs, now>>
           ELSE \E d \in 0..1, ok1, ok2 \in BOOLEAN :
                LET inst == o.value
                    ue == user_entry(in.session_id, in.turn, in.user, now + 1, in.metadata)
                    ae == assistant_entry(in.session_id, in.turn, in.assistant,
                                          now + 1 + d, in.metadata)
                    st0 == Stores
                    old == { r \in Stored(inst, st0) : SameKey(r, ue) \/ SameKey(r, ae) }
                    st2 == save_both(inst, st0, ue, ae, ok1, ok2)
                    tried == IF ok1
                             THEN << [backend |-> o.value, entry |-> ue, ok |-> TRUE],
                                     [backend |-> o.value, entry |-> ae, ok |-> ok2] >>
                             ELSE << [backend |-> o.value, entry |-> ue, ok |-> FALSE] >>
                IN  /\ now + 1 + d <= MaxClock
                    /\ ok1 \/ ~ok2
                    /\ pg' = st2.pg
                    /\ fs' = st2.fs
                    /\ now' = now + 1 + d
                    /\ lastResult' =
                         IF ok1 /\ ok2
                         THEN Result("memory_save", in, FALSE,
                                     [ok |-> TRUE, entry_id |-> backend_save_id(inst, ae)],
                                     o.value, tried, old)
                         ELSE Result("memory_save", in, TRUE, NoDict, o.value, tried, old)
    /\ UNCHANGED <<lastSwitch, pc, loc>>

\* memory_query (mcp_tools.py:60-66); ok tells whether backend.query completes
memory_query(in) ==
    \E o \in get_memory_backend :
        /\ Leaves(o)
        /\ IF o.raised
           THEN lastResult' = Result("memory_query", in, TRUE, NoDict, None, <<>>, {})
           ELSE \E ok \in BOOLEAN :
                lastResult' =
                  IF ok
                  THEN Result("memory_query", in, FALSE,
                              [matches |-> backend_query(o.value,
                                               in.session_id, in.query, in.limit)],
                              o.value, <<>>, {})
                  ELSE Result("memory_query", in, TRUE, NoDict, o.value, <<>>, {})
    /\ UNCHANGED <<pg, fs, now, lastSwitch, pc, loc>>

\* a switch that migrates: the records of the old backend's store are saved
\* into the new backend's store
switch_stores_migrating(st, old, new) ==
    IF new = old \/ new = None \/ old = None THEN st
    ELSE IF new.cls = "PostgresMemory"
    THEN [st EXCEPT !.pg[new.param] = @ \cup Stored(old, st)]
    ELSE [st EXCEPT !.fs[new.param] =
              @ \cup { [id |-> doc_id(r), data |-> r] : r \in Stored(old, st) }]

\* what switch_memory_backend does to the stores st when it replaces the
\* object old by the object new: it reads and writes no record (memory.py:175-194;
\* CREATE TABLE IF NOT EXISTS in the constructor keeps an existing table)
switch_stores(st, old, new) == st

\* memory_switch (mcp_tools.py:69-72)
memory_switch(in) ==
    \E o \in switch_memory_backend(in.backend, in.connection) :
        /\ Leaves(o)
        /\ pg' = switch_stores(Stores, _memory_backend, o.mb).pg
        /\ fs' = switch_stores(Stores, _memory_backend, o.mb).fs
        /\ lastResult' = Result("memory_switch", in, o.raised,
                                IF o.raised THEN NoDict ELSE o.value, None, <<>>,
                                { [mb |-> _memory_backend, env |-> env] })
        /\ lastSwitch' = IF ~o.raised /\ o.value.ok
                         THEN [ok |-> TRUE, backend |-> o.value.backend,
                               from |-> _memory_backend.cls]
                         ELSE lastSwitch
    /\ UNCHANGED <<now, pc, loc>>

\* a direct call of get_memory_backend()
resolve ==
    \E o \in get_memory_backend :
        /\ Leaves(o)
        /\ lastResult' = Result("get_memory_backend", NoValue, o.raised, NoDict,
                                o.value, <<>>, {})
    /\ UNCHANGED <<pg, fs, now, lastSwitch, pc, loc>>

(***************************************************************************)
(* Inputs                                                                  *)
(***************************************************************************)
Turns == {0, 1, 5}
Limits == {0, 1, 2}

SaveInputs ==
    [session_id : Sessions, turn : Turns, user : {hi}, assistant : {Ab},
     metadata : Metas]

QueryInputs == [session_id : Sessions, query : {<<>>}, limit : {2}]

\* connection dicts: {}, {"dsn": d}, {"project": p}
Connections ==
    [dsn : {NoValue} \cup Dsns, project : {NoValue}]
        \cup [dsn : {NoValue}, project : Projects]

SwitchInputs == [backend : RequestedKinds, connection : Connections]

\* the one exchange and the one query issued while the registry is exercised
OneSave == [session_id : {"s1"}, turn : {1}, user : {hi}, assistant : {Ab},
            metadata : {"m1"}]
OneQuery == [session_id : {"s1"}, query : {<<>>}, limit : {2}]

(***************************************************************************)
(* The process: requests handled one after another                         *)
(***************************************************************************)
Init ==
    /\ env \in [MEMORY_BACKEND : {Unset, <<"F","i","r","e","s","t","o","r","e">>, bogus},
                POSTGRES_DSN : {NoValue, "dsn1"},
                FIRESTORE_PROJECT : {NoValue, "proj1"}]
    /\ _memory_backend = None
    /\ constructed = 0
    /\ pg = [d \in Dsns |-> {}]
    /\ pgSchema = {}
    /\ fs = [p \in Projects |-> {}]
    /\ now = 0
    /\ lastResult = Result("start", NoValue, FALSE, NoDict, None, <<>>, {})
    /\ lastSwitch = NoSwitch
    /\ pc = [p \in Procs |-> "idle"]
    /\ loc = [p \in Procs |-> NoLoc]

\* Spec: the registry under every switch, with one exchange saved and queried
MemorySwitch == \E in \in SwitchInputs : memory_switch(in)
Resolve == resolve
SaveOne == \E in \in OneSave : memory_save(in)
QueryOne == \E in \in OneQuery : memory_query(in)

Next == MemorySwitch \/ Resolve \/ SaveOne \/ QueryOne

Spec == Init /\ [][Next]_vars

\* SpecRecorder: the Turn Recorder and queries under every input, on the
\* backend the environment selects
MemorySave == \E in \in SaveInputs : memory_save(in)
MemoryQuery == \E in \in QueryInputs : memory_query(in)

NextRecorder == MemorySave \/ MemoryQuery

SpecRecorder == Init /\ [][NextRecorder]_vars

\* SpecBackend: the active backend's save and query called directly, with
\* every entry and every query, from the state a first get_memory_backend()
\* leaves
Payloads ==
    { [speaker |-> user, text |-> hi, metadata |-> "m0"],
      [speaker |-> user, text |-> Ab, metadata |-> "m1"],
      [speaker |-> assistant, text |-> hi, metadata |-> "m1"],
      [speaker |-> assistant, text |-> Ab, metadata |-> "m0"] }

Entries ==
    { MemoryEntry(S, n, p.speaker, p.text, 0, p.metadata) :
        S \in Sessions, n \in {1, 2}, p \in Payloads }

DirectQueries == [session_id : Sessions, query : QueryTexts, limit : Limits]

InitBackend ==
    /\ \/ /\ env = [MEMORY_BACKEND |-> Unset, POSTGRES_DSN |-> "dsn1",
                    FIRESTORE_PROJECT |-> NoValue]
          /\ _memory_backend = [id |-> 1, cls |-> "PostgresMemory", param |-> "dsn1",
                                by |-> "get_memory_backend"]
          /\ pgSchema = {"dsn1"}
       \/ /\ env = [MEMORY_BACKEND |-> firestore, POSTGRES_DSN |-> NoValue,
                    FIRESTORE_PROJECT |-> "proj1"]
          /\ _memory_backend = [id |-> 1, cls |-> "FirestoreMemory", param |-> "proj1",
                                by |-> "get_memory_backend"]
          /\ pgSchema = {}
    /\ constructed = 1
    /\ pg = [d \in Dsns |-> {}]
    /\ fs = [p \in Projects |-> {}]
    /\ now = 0
    /\ lastResult = Result("start", NoValue, FALSE, NoDict, None, <<>>, {})
    /\ lastSwitch = NoSwitch
    /\ pc = [p \in Procs |-> "idle"]
    /\ loc = [p \in Procs |-> NoLoc]

\* get_memory_backend().save(entry), entry stamped with the current time
BackendSave ==
    \E e \in Entries :
        LET entry == [e EXCEPT !.timestamp = now + 1]
            st == backend_save(_memory_backend, Stores, entry)
        IN  /\ now < MaxClock
            /\ now' = now + 1
            /\ pg' = st.pg
            /\ fs' = st.fs
            /\ lastResult' =
                 Result("save", entry, FALSE,
                        [entry_id |-> backend_save_id(_memory_backend, entry)],
                        _memory_backend,
                        << [backend |-> _memory_backend, entry |-> entry, ok |-> TRUE] >>,
                        { r \in Stored(_memory_backend, Stores) : SameKey(r, entry) })
            /\ UNCHANGED <<env, _memory_backend, constructed, pgSchema, lastSwitch, pc, loc>>

\* get_memory_backend().query(session_id, query, limit)
BackendQuery ==
    \E in \in DirectQueries :
        /\ lastResult' =
             Result("query", in, FALSE,
                    [matches |-> backend_query(_memory_backend, in.session_id,
                                               in.query, in.limit)],
                    _memory_backend, <<>>, {})
        /\ UNCHANGED <<env, _memory_backend, constructed, pg, pgSchema, fs, now, lastSwitch, pc, loc>>

NextBackend == BackendSave \/ BackendQuery

SpecBackend == InitBackend /\ [][NextBackend]_vars

(***************************************************************************)
(* SpecConcurrent: one request per member of Procs, running concurrently,  *)
(* one step per access to the global, the environment, the clock or a      *)
(* store, from the Unbound registry or from the registry a first           *)
(* get_memory_backend() has bound.  loc[p] holds the                       *)
(* locals of request p: op, in, cls and arg (the class being constructed   *)
(* and its dsn/project argument), obj (the object under construction),     *)
(* from (the class bound when the switch assigns), backend, ue, ae, saves, *)
(* before.                                                                 *)
(***************************************************************************)
ConcurrentSwitches ==
    { [backend |-> postgres, connection |-> [dsn |-> "dsn2", project |-> NoValue]],
      [backend |-> firestore, connection |-> [dsn |-> NoValue, project |-> "proj1"]],
      [backend |-> bogus, connection |-> [dsn |-> NoValue, project |-> NoValue]] }

InitConcurrent ==
    /\ env = [MEMORY_BACKEND |-> Unset, POSTGRES_DSN |-> "dsn1",
              FIRESTORE_PROJECT |-> NoValue]
    /\ \/ /\ _memory_backend = None
          /\ constructed = 0
          /\ pgSchema = {}
       \/ /\ _memory_backend = [id |-> 1, cls |-> "PostgresMemory", param |-> "dsn1",
                                by |-> "get_memory_backend"]
          /\ constructed = 1
          /\ pgSchema = {"dsn1"}
    /\ pg = [d \in Dsns |-> {}]
    /\ fs = [p \in Projects |-> {}]
    /\ now = 0
    /\ lastResult = Result("start", NoValue, FALSE, NoDict, None, <<>>, {})
    /\ lastSwitch = NoSwitch
    /\ pc = [p \in Procs |-> "idle"]
    /\ loc = [p \in Procs |-> NoLoc]

Locals(op, in) ==
    [op |-> op, in |-> in, cls |-> "None", arg |-> NoValue, obj |-> None,
     from |-> "None", backend |-> None, ue |-> NoValue, ae |-> NoValue,
     saves |-> <<>>, before |-> {}]

Goto(p, label) == pc' = [pc EXCEPT ![p] = label]

\* the request of p ends: it returns or raises
Finish(p, result) ==
    /\ lastResult' = result
    /\ pc' = [pc EXCEPT ![p] = "done"]
    /\ loc' = [loc EXCEPT ![p] = NoLoc]

Raise(p) ==
    Finish(p, Result(loc[p].op, loc[p].in, TRUE, NoDict, loc[p].backend,
                     loc[p].saves, loc[p].before))

\* a request arrives: memory_save (mcp_tools.py:32-37), a direct
\* get_memory_backend(), or memory_switch with a recognized kind
\* (mcp_tools.py:70-72, memory.py:179-180, 187)
Start(p) ==
    /\ pc[p] = "idle"
    /\ \/ \E in \in OneSave :
              /\ loc' = [loc EXCEPT ![p] = Locals("memory_save", in)]
              /\ Goto(p, "gmb_check")
       \/ /\ loc' = [loc EXCEPT ![p] = Locals("get_memory_backend", NoValue)]
          /\ Goto(p, "gmb_check")
       \/ \E in \in ConcurrentSwitches :
              /\ Lower(in.backend) \in {postgres, firestore}
              /\ loc' = [loc EXCEPT ![p] =
                            [Locals("memory_switch", in) EXCEPT
                                !.cls = IF Lower(in.backend) = postgres
                                        THEN "PostgresMemory" ELSE "FirestoreMemory"]]
              /\ Goto(p, "sw_read")
    /\ UNCHANGED <<env, _memory_backend, constructed, pg, pgSchema, fs, now,
                   lastResult, lastSwitch>>

\* memory_switch with an unrecognized kind (memory.py:179-180, 187, 194)
SwitchUnsupported(p) ==
    /\ pc[p] = "idle"
    /\ \E in \in ConcurrentSwitches :
           /\ Lower(in.backend) \notin {postgres, firestore}
           /\ \E o \in unsupported(Lower(in.backend)) :
                  /\ Finish(p, Result("memory_switch", in, FALSE, o.value, None, <<>>,
                                      { [mb |-> _memory_backend, env |-> env] }))
                  /\ _memory_backend' = o.mb
                  /\ env' = o.env
    /\ UNCHANGED <<constructed, pg, pgSchema, fs, now, lastSwitch>>

\* `if _memory_backend is None:` (memory.py:164)
GmbCheck(p) ==
    /\ pc[p] = "gmb_check"
    /\ Goto(p, IF _memory_backend = None THEN "gmb_getenv" ELSE "gmb_return")
    /\ UNCHANGED <<env, _memory_backend, constructed, pg, pgSchema, fs, now,
                   lastResult, lastSwitch, loc>>

\* backend = os.getenv("MEMORY_BACKEND", "postgres").lower() and the choice of
\* the class (memory.py:165-171)
GmbGetenv(p) ==
    /\ pc[p] = "gmb_getenv"
    /\ LET backend == Lower(IF env.MEMORY_BACKEND = Unset THEN postgres
                            ELSE env.MEMORY_BACKEND)
       IN  IF backend \in {postgres, firestore}
           THEN /\ loc' = [loc EXCEPT ![p].cls = IF backend = postgres
                                                 THEN "PostgresMemory"
                                                 ELSE "FirestoreMemory"]
                /\ Goto(p, "init")
                /\ UNCHANGED lastResult
           ELSE Raise(p)
    /\ UNCHANGED <<env, _memory_backend, constructed, pg, pgSchema, fs, now, lastSwitch>>

\* a constructor that hands the object out before it has connected
after_init_published == "assign"

\* what __init__ does after it has set self._dsn / self._project:
\* self._ensure_schema() (memory.py:35), firestore.Client(...) (memory.py:114)
after_init == "connect"

\* self._dsn = dsn or os.getenv("POSTGRES_DSN") (memory.py:32-34),
\* self._project = project or os.getenv("FIRESTORE_PROJECT") (memory.py:109-113)
ConstructInit(p) ==
    /\ pc[p] = "init"
    /\ LET param == IF loc[p].arg # NoValue THEN loc[p].arg
                    ELSE IF loc[p].cls = "PostgresMemory" THEN env.POSTGRES_DSN
                    ELSE env.FIRESTORE_PROJECT
       IN  IF param = NoValue
           THEN Raise(p)
           ELSE /\ loc' = [loc EXCEPT ![p].obj =
                              [id |-> 0, cls |-> loc[p].cls, param |-> param,
                               by |-> IF loc[p].op = "memory_switch"
                                      THEN "switch_memory_backend"
                                      ELSE "get_memory_backend"]]
                /\ Goto(p, after_init)
                /\ UNCHANGED lastResult
    /\ UNCHANGED <<env, _memory_backend, constructed, pg, pgSchema, fs, now, lastSwitch>>

\* _ensure_schema() (memory.py:37-53) or firestore.Client(...) (memory.py:114-115)
\* completes, and with it the constructor, or raises
ConstructConnect(p) ==
    /\ pc[p] = "connect"
    /\ \/ /\ Raise(p)
          /\ UNCHANGED <<constructed, pgSchema>>
       \/ /\ constructed < MaxInstances
          /\ constructed' = constructed + 1
          /\ pgSchema' = IF loc[p].cls = "PostgresMemory"
                         THEN pgSchema \cup {loc[p].obj.param} ELSE pgSchema
          /\ loc' = [loc EXCEPT ![p].obj.id = constructed + 1]
          /\ Goto(p, "assign")
          /\ UNCHANGED lastResult
    /\ UNCHANGED <<env, _memory_backend, pg, fs, now, lastSwitch>>

\* _memory_backend = <the constructed object> (memory.py:167, 169, 185, 192)
Assign(p) ==
    /\ pc[p] = "assign"
    /\ _memory_backend' = loc[p].obj
    /\ loc' = [loc EXCEPT ![p].from = _memory_backend.cls]
    /\ Goto(p, IF loc[p].op = "memory_switch" THEN "sw_return" ELSE "gmb_return")
    /\ UNCHANGED <<env, constructed, pg, pgSchema, fs, now, lastResult, lastSwitch>>

\* return _memory_backend (memory.py:172), to the caller or into
\* `backend = get_memory_backend()` (mcp_tools.py:37)
GmbReturn(p) ==
    /\ pc[p] = "gmb_return"
    /\ IF loc[p].op = "get_memory_backend"
       THEN Finish(p, Result("get_memory_backend", NoValue, FALSE, NoDict,
                             _memory_backend, <<>>, {}))
       ELSE /\ loc' = [loc EXCEPT ![p].backend = _memory_backend]
            /\ Goto(p, "entries")
            /\ UNCHANGED lastResult
    /\ UNCHANGED <<env, _memory_backend, constructed, pg, pgSchema, fs, now, lastSwitch>>

\* dsn = connection.get("dsn") or os.getenv("POSTGRES_DSN") (memory.py:181, 188)
SwRead(p) ==
    /\ pc[p] = "sw_read"
    /\ LET c == loc[p].in.connection
       IN  loc' = [loc EXCEPT ![p].arg =
                      IF loc[p].cls = "PostgresMemory"
                      THEN (IF c.dsn # NoValue THEN c.dsn ELSE env.POSTGRES_DSN)
                      ELSE (IF c.project # NoValue THEN c.project
                            ELSE env.FIRESTORE_PROJECT)]
    /\ Goto(p, "sw_setkind")
    /\ UNCHANGED <<env, _memory_backend, constructed, pg, pgSchema, fs, now,
                   lastResult, lastSwitch>>

\* os.environ["MEMORY_BACKEND"] = "postgres" / "firestore" (memory.py:182, 189)
SwSetKind(p) ==
    /\ pc[p] = "sw_setkind"
    /\ env' = [env EXCEPT !.MEMORY_BACKEND =
                  IF loc[p].cls = "PostgresMemory" THEN postgres ELSE firestore]
    /\ Goto(p, "sw_setparam")
    /\ UNCHANGED <<_memory_backend, constructed, pg, pgSchema, fs, now,
                   lastResult, lastSwitch, loc>>

\* if dsn: os.environ["POSTGRES_DSN"] = dsn (memory.py:183-184, 190-191)
SwSetParam(p) ==
    /\ pc[p] = "sw_setparam"
    /\ env' = IF loc[p].arg = NoValue THEN env
              ELSE IF loc[p].cls = "PostgresMemory"
              THEN [env EXCEPT !.POSTGRES_DSN = loc[p].arg]
              ELSE [env EXCEPT !.FIRESTORE_PROJECT = loc[p].arg]
    /\ Goto(p, "init")
    /\ UNCHANGED <<_memory_backend, constructed, pg, pgSchema, fs, now,
                   lastResult, lastSwitch, loc>>

\* return {"ok": True, "backend": ...} (memory.py:186, 193)
SwReturn(p) ==
    /\ pc[p] = "sw_return"
    /\ LET kind == IF loc[p].cls = "PostgresMemory" THEN postgres ELSE firestore
       IN  /\ Finish(p, Result("memory_switch", loc[p].in, FALSE,
                               [ok |-> TRUE, backend |-> kind], None, <<>>, {}))
           /\ lastSwitch' = [ok |-> TRUE, backend |-> kind, from |-> loc[p].from]
    /\ UNCHANGED <<env, _memory_backend, constructed, pg, pgSchema, fs, now>>

\* user_entry and assistant_entry are built, each with its own now_iso()
\* (mcp_tools.py:39-54)
BuildEntries(p) ==
    /\ pc[p] = "entries"
    /\ \E d \in 0..1 :
           /\ now + 1 + d <= MaxClock
           /\ now' = now + 1 + d
           /\ LET in == loc[p].in
              IN  loc' = [loc EXCEPT
                     ![p].ue = user_entry(in.session_id, in.turn, in.user, now + 1,
                                          in.metadata),
                     ![p].ae = assistant_entry(in.session_id, in.turn, in.assistant,
                                               now + 1 + d, in.metadata)]
    /\ Goto(p, "save_user")
    /\ UNCHANGED <<env, _memory_backend, constructed, pg, pgSchema, fs,
                   lastResult, lastSwitch>>

\* what one backend.save(entry) of request p adds to its locals
Saved(p, inst, entry, ok) ==
    [loc[p] EXCEPT
        !.saves = Append(@, [backend |-> inst, entry |-> entry, ok |-> ok]),
        !.before = @ \cup { r \in Stored(inst, Stores) : SameKey(r, entry) }]

\* user_id = backend.save(user_entry) (mcp_tools.py:55)
SaveUser(p) ==
    /\ pc[p] = "save_user"
    /\ LET inst == loc[p].backend
           l1 == Saved(p, inst, loc[p].ue, TRUE)
           l0 == Saved(p, inst, loc[p].ue, FALSE)
       IN  \/ /\ pg' = backend_save(inst, Stores, loc[p].ue).pg
              /\ fs' = backend_save(inst, Stores, loc[p].ue).fs
              /\ loc' = [loc EXCEPT ![p] = l1]
              /\ Goto(p, "save_assistant")
              /\ UNCHANGED lastResult
           \/ /\ Finish(p, Result("memory_save", l0.in, TRUE, NoDict, l0.backend,
                                  l0.saves, l0.before))
              /\ UNCHANGED <<pg, fs>>
    /\ UNCHANGED <<env, _memory_backend, constructed, pgSchema, now, lastSwitch>>

\* a second save that looks the active backend up again
assistant_save_backend_current(p) == _memory_backend

\* the object of `backend.save(assistant_entry)`: the local name backend
\* (mcp_tools.py:37, 56)
assistant_save_backend(p) == loc[p].backend

\* assistant_id = backend.save(assistant_entry); return {"ok": True, ...}
\* (mcp_tools.py:56-57)
SaveAssistant(p) ==
    /\ pc[p] = "save_assistant"
    /\ LET inst == assistant_save_backend(p)
           l1 == Saved(p, inst, loc[p].ae, TRUE)
           l0 == Saved(p, inst, loc[p].ae, FALSE)
       IN  \/ /\ pg' = backend_save(inst, Stores, loc[p].ae).pg
              /\ fs' = backend_save(inst, Stores, loc[p].ae).fs
              /\ Finish(p, Result("memory_save", l1.in, FALSE,
                                  [ok |-> TRUE,
                                   entry_id |-> backend_save_id(inst, loc[p].ae)],
                                  l1.backend, l1.saves, l1.before))
           \/ /\ Finish(p, Result("memory_save", l0.in, TRUE, NoDict, l0.backend,
                                  l0.saves, l0.before))
              /\ UNCHANGED <<pg, fs>>
    /\ UNCHANGED <<env, _memory_backend, constructed, pgSchema, now, lastSwitch>>

NextConcurrent ==
    \E p \in Procs :
        \/ Start(p)
        \/ SwitchUnsupported(p)
        \/ GmbCheck(p)
        \/ GmbGetenv(p)
        \/ ConstructInit(p)
        \/ ConstructConnect(p)
        \/ Assign(p)
        \/ GmbReturn(p)
        \/ SwRead(p)
        \/ SwSetKind(p)
        \/ SwSetParam(p)
        \/ SwReturn(p)
        \/ BuildEntries(p)
        \/ SaveUser(p)
        \/ SaveAssistant(p)

SpecConcurrent == InitConcurrent /\ [][NextConcurrent]_vars

(***************************************************************************)
(* Claims                                                                  *)
(***************************************************************************)
Min(a, b) == IF a < b THEN a ELSE b

\* the store the last call's backend object reads and writes
LastStore == Stored(lastResult.backend, Stores)

\* C1: in both backends a store never holds two records with the same
\* (session_id, turn) key, and right after a completed save(entry) the store
\* holds exactly one record under entry's key, whose speaker, text, timestamp
\* and metadata are those of entry (the last one saved under that key).
C1_SaveOverwrites ==
    /\ \A d \in Dsns : \A r1, r2 \in pg[d] : SameKey(r1, r2) => r1 = r2
    /\ \A p \in Projects : \A d1, d2 \in fs[p] :
           (d1.id = d2.id \/ SameKey(d1.data, d2.data)) => d1 = d2
    /\ (lastResult.op = "save" /\ ~lastResult.raised) =>
           { r \in LastStore : SameKey(r, lastResult.input) } = {lastResult.input}

\* a completed save over a record of the same key with another text
C1_Witness ==
    /\ lastResult.op = "save"
    /\ ~lastResult.raised
    /\ \E r \in lastResult.before : r.text # lastResult.input.text

\* C3: in both backends query(S, q, L) with L >= 0 returns at most L matches,
\* each the turn, text and timestamp of a stored record of session S, in
\* strictly descending order of turn.
C3_QueryBounded ==
    lastResult.op = "query" =>
        LET m == lastResult.value.matches
            in == lastResult.input
        IN  /\ Len(m) <= in.limit
            /\ \A i \in 1..Len(m) :
                   \E r \in LastStore : r.session_id = in.session_id /\ Match(r) = m[i]
            /\ \A i \in 1..(Len(m) - 1) : m[i].turn > m[i + 1].turn

\* a query whose limit cuts the result short
C3_Witness ==
    /\ lastResult.op = "query"
    /\ lastResult.input.limit = 1
    /\ Len(lastResult.value.matches) = 1
    /\ Cardinality({ r \in LastStore : r.session_id = lastResult.input.session_id }) = 2

\* the records of session S whose text or speaker contains q, ignoring case
SubstringMatches(rows, S, q) ==
    { r \in rows : /\ r.session_id = S
                   /\ \/ Contains(Lower(q), Lower(r.text))
                      \/ Contains(Lower(q), Lower(r.speaker)) }

\* m is the L highest-turn records of the set M, in descending order of turn
TopByTurn(m, M, L) ==
    /\ Len(m) = Min(L, Cardinality(M))
    /\ \A i \in 1..Len(m) : \E r \in M : Match(r) = m[i]
    /\ \A i \in 1..(Len(m) - 1) : m[i].turn > m[i + 1].turn
    /\ \A r \in M : \/ \E i \in 1..Len(m) : m[i] = Match(r)
                    \/ \A i \in 1..Len(m) : m[i].turn > r.turn

\* C4: the relational query(S, q, L) returns exactly the L highest-turn records
\* (all if fewer) among the records of S whose text or speaker contains q as a
\* case-insensitive substring.
C4_PostgresSubstring ==
    (lastResult.op = "query" /\ lastResult.backend.cls = "PostgresMemory") =>
        TopByTurn(lastResult.value.matches,
                  SubstringMatches(LastStore, lastResult.input.session_id,
                                   lastResult.input.query),
                  lastResult.input.limit)

\* the two entries memory_save derives from its input, whatever their timestamps
IsUserEntry(e, in) ==
    /\ e.session_id = in.session_id
    /\ e.turn = 2 * in.turn - 1
    /\ e.speaker = user
    /\ e.text = in.user
    /\ e.metadata = in.metadata

IsAssistantEntry(e, in) ==
    /\ e.session_id = in.session_id
    /\ e.turn = 2 * in.turn
    /\ e.speaker = assistant
    /\ e.text = in.assistant
    /\ e.metadata = in.metadata

\* the records of a store that are not under one of the two keys of input in
OtherKeys(rows, in) ==
    { r \in rows : ~(r.session_id = in.session_id
                     /\ r.turn \in {2 * in.turn - 1, 2 * in.turn}) }

C2_Saves ==
    lastResult.op = "memory_save" =>
        LET sv == lastResult.saves
            in == lastResult.input
        IN  /\ Len(sv) <= 2
            /\ \A i \in 1..Len(sv) : sv[i].backend = lastResult.backend
            /\ Len(sv) >= 1 => IsUserEntry(sv[1].entry, in)
            /\ Len(sv) = 2 => IsAssistantEntry(sv[2].entry, in)
            /\ (Len(sv) >= 1 /\ sv[1].ok) => Len(sv) = 2
            /\ ~lastResult.raised => Len(sv) = 2

C2_Frame ==
    lastResult'.op = "memory_save" =>
        /\ \A d \in Dsns :
               OtherKeys(pg'[d], lastResult'.input) = OtherKeys(pg[d], lastResult'.input)
        /\ \A p \in Projects :
               OtherKeys({ x.data : x \in fs'[p] }, lastResult'.input)
                   = OtherKeys({ x.data : x \in fs[p] }, lastResult'.input)

\* C2: a memory_save with session S and turn t passes to the backend it
\* resolved the user entry (S, 2t-1, "user", user text) and then the assistant
\* entry (S, 2t, "assistant", assistant text), both with the call's metadata,
\* exactly these two whenever the user save completes, and the call changes
\* no record under any other key in any store.
C2_TurnRecorderKeys == []C2_Saves /\ [][C2_Frame]_vars

\* a completed memory_save for turn 5, whose records 9 and 10 are stored
C2_Witness ==
    /\ lastResult.op = "memory_save"
    /\ ~lastResult.raised
    /\ lastResult.input.turn = 5
    /\ { r.turn : r \in LastStore } = {9, 10}

\* C7: when the user save completes and the assistant save raises, memory_save
\* raises after exactly these two attempts, the user entry is stored and what
\* is under the assistant key is what was there before the call; memory_save
\* returns ok: true only when both entries are stored.
C7_PartialFailure ==
    lastResult.op = "memory_save" =>
        LET sv == lastResult.saves
        IN  /\ (Len(sv) >= 2 /\ sv[1].ok /\ ~sv[2].ok) =>
                   /\ lastResult.raised
                   /\ Len(sv) = 2
                   /\ sv[1].entry \in LastStore
                   /\ { r \in LastStore : SameKey(r, sv[2].entry) }
                          = { r \in lastResult.before : SameKey(r, sv[2].entry) }
            /\ ~lastResult.raised =>
                   /\ lastResult.value.ok
                   /\ Len(sv) = 2
                   /\ sv[1].ok /\ sv[1].entry \in LastStore
                   /\ sv[2].ok /\ sv[2].entry \in LastStore

\* a memory_save whose user save completed and whose assistant save raised
C7_Witness ==
    /\ lastResult.op = "memory_save"
    /\ Len(lastResult.saves) = 2
    /\ lastResult.saves[1].ok
    /\ ~lastResult.saves[2].ok

\* k.lower() is neither "postgres" nor "firestore"
Unrecognized(k) == Lower(k) \notin {postgres, firestore}

\* an unrecognized switch raises nothing, returns ok: false with the kind
\* echoed, and leaves the binding and the configuration as it found them
UnrecognizedSwitch(echo) ==
    (lastResult.op = "memory_switch" /\ Unrecognized(lastResult.input.backend)) =>
        /\ ~lastResult.raised
        /\ lastResult.value = [ok |-> FALSE, backend |-> echo]
        /\ lastResult.before = { [mb |-> _memory_backend, env |-> env] }

\* C5 as claimed: for every unrecognized kind k, switch(k, connection) raises
\* no error, returns {ok: false, backend: k} with k as it was requested, and
\* leaves the active backend object and the configuration unchanged.
C5_EchoesKindAsRequested == UnrecognizedSwitch(lastResult.input.backend)

C5_Unchanged == UnrecognizedSwitch(Lower(lastResult.input.backend))

C5_Following ==
    (/\ lastResult.op = "memory_switch"
     /\ Unrecognized(lastResult.input.backend)
     /\ lastResult'.op \in {"memory_save", "memory_query"}) =>
        \A b \in lastResult.before : b.mb # None => lastResult'.backend = b.mb

\* C5 amended: for every unrecognized kind k, switch(k, connection) raises no
\* error, returns {ok: false, backend: k.lower()}, leaves the active backend
\* object and the configuration unchanged, and the memory_save or memory_query
\* that follows is served by the backend object that was active before.
C5_UnrecognizedSwitch == []C5_Unchanged /\ [][C5_Following]_vars

\* an unrecognized kind with an upper-case letter, requested while Bound
C5_Witness ==
    /\ lastResult.op = "memory_switch"
    /\ Unrecognized(lastResult.input.backend)
    /\ Lower(lastResult.input.backend) # lastResult.input.backend
    /\ _memory_backend # None

C6_AfterSwitch ==
    (/\ lastSwitch.ok
     /\ lastSwitch.backend = firestore
     /\ lastSwitch.from = "PostgresMemory") =>
        /\ lastResult'.op = "memory_save" =>
               /\ pg' = pg
               /\ lastResult'.backend.cls \in {"FirestoreMemory", "None"}
               /\ \A i \in 1..Len(lastResult'.saves) :
                      lastResult'.saves[i].ok =>
                          \E p \in Projects :
                              lastResult'.saves[i].entry \in { x.data : x \in fs'[p] }
        /\ (lastResult'.op = "memory_query" /\ ~lastResult'.raised) =>
               /\ lastResult'.backend.cls = "FirestoreMemory"
               /\ \E p \in Projects :
                      lastResult'.value.matches =
                          FirestoreMemory_query(fs[p], lastResult'.input.session_id,
                              lastResult'.input.query, lastResult'.input.limit)

\* C6: once a switch from the relational backend to the document backend has
\* returned ok: true, and until the next switch that returns ok: true, every
\* memory_save writes its entries to the document store and leaves every
\* relational store as it was, and every memory_query returns what the
\* document store holds.
C6_SwitchRedirects == [][C6_AfterSwitch]_vars

\* after such a switch, a completed memory_save and a relational store that
\* holds the records saved before the switch
C6_Witness ==
    /\ lastSwitch.ok
    /\ lastSwitch.backend = firestore
    /\ lastSwitch.from = "PostgresMemory"
    /\ lastResult.op = "memory_save"
    /\ ~lastResult.raised
    /\ \E d \in Dsns : pg[d] # {}
    /\ \E p \in Projects : fs[p] # {}

\* the class the environment selects
ConfiguredClass ==
    IF Lower(IF env.MEMORY_BACKEND = Unset THEN postgres ELSE env.MEMORY_BACKEND) = postgres
    THEN "PostgresMemory" ELSE "FirestoreMemory"

C8_Resolve ==
    /\ _memory_backend # None => _memory_backend' # None
    /\ lastResult'.op \in {"get_memory_backend", "memory_save", "memory_query"} =>
           IF _memory_backend # None
           THEN /\ _memory_backend' = _memory_backend
                /\ constructed' = constructed
                /\ lastResult'.backend = _memory_backend
           ELSE \/ /\ lastResult'.raised
                   /\ lastResult'.backend = None
                   /\ _memory_backend' = None
                   /\ constructed' = constructed
                \/ /\ constructed = 0
                   /\ constructed' = 1
                   /\ _memory_backend' # None
                   /\ _memory_backend'.id = 1
                   /\ _memory_backend'.by = "get_memory_backend"
                   /\ _memory_backend'.cls = ConfiguredClass
                   /\ lastResult'.backend = _memory_backend'

\* C8: with requests handled one after another, a resolve() (direct, or inside
\* memory_save or memory_query) on the Unbound registry either raises and
\* leaves it Unbound, or constructs one backend of the configured kind
\* (postgres by default), the first object of the process, and binds it; on the
\* Bound registry it returns the bound object and constructs nothing; the
\* registry never goes back to Unbound.
C8_TwoStateRegistry == [][C8_Resolve]_vars

\* a direct resolve() that returned the lazily bound object after a save
C8_Witness ==
    /\ lastResult.op = "get_memory_backend"
    /\ ~lastResult.raised
    /\ lastResult.backend = _memory_backend
    /\ _memory_backend.by = "get_memory_backend"
    /\ Stored(_memory_backend, Stores) # {}

\* C9: under every interleaving of memory_save with switch, every
\* backend.save a memory_save makes, while it runs and when it has ended,
\* goes to the backend object it resolved when it started: its user entry and
\* its assistant entry are never written through two different backends.
C9_SaveOnOneBackend ==
    /\ \A p \in Procs :
           pc[p] \in {"save_user", "save_assistant"} =>
               \A i \in 1..Len(loc[p].saves) : loc[p].saves[i].backend = loc[p].backend
    /\ lastResult.op = "memory_save" =>
           \A i \in 1..Len(lastResult.saves) :
               lastResult.saves[i].backend = lastResult.backend

\* a memory_save that saved both entries through the backend it had resolved
\* although a switch had replaced the active backend by one of the other kind
C9_Witness ==
    /\ lastResult.op = "memory_save"
    /\ ~lastResult.raised
    /\ Len(lastResult.saves) = 2
    /\ lastResult.backend.cls = "PostgresMemory"
    /\ _memory_backend.cls = "FirestoreMemory"

\* b is an object whose constructor has completed
FullyConstructed(b) ==
    /\ b.id \in 1..constructed
    /\ b.cls = "PostgresMemory" => b.param \in pgSchema

C10_Constructed ==
    /\ _memory_backend # None => FullyConstructed(_memory_backend)
    /\ \A p \in Procs :
           (pc[p] \in {"entries", "save_user", "save_assistant"}) =>
               FullyConstructed(loc[p].backend)
    /\ (lastResult.op = "get_memory_backend" /\ ~lastResult.raised) =>
           FullyConstructed(lastResult.backend)

C10_Step ==
    /\ _memory_backend # None => _memory_backend' # None
    /\ _memory_backend' # _memory_backend =>
           \E p \in Procs : /\ pc[p] = "assign"
                            /\ _memory_backend' = loc[p].obj
                            /\ FullyConstructed(loc[p].obj)
    /\ \A p \in Procs :
           (pc[p] = "gmb_return" /\ pc'[p] # "gmb_return") =>
               /\ _memory_backend # None
               /\ IF loc[p].op = "get_memory_backend"
                  THEN lastResult'.backend = _memory_backend
                  ELSE loc'[p].backend = _memory_backend

\* C10: under every interleaving of switch with resolve(), the global is
\* assigned in one step, from an object whose constructor (schema creation
\* included) has completed; it never holds an object under construction and
\* never goes back to None; and a resolve() returns the object the global
\* holds when it returns, the one bound before the switch or the new one.
C10_AtomicSwitch == []C10_Constructed /\ [][C10_Step]_vars

\* a resolve() that returned the backend bound before, while a switch had its
\* new backend constructed and not yet assigned
C10_Witness ==
    /\ lastResult.op = "get_memory_backend"
    /\ ~lastResult.raised
    /\ lastResult.backend = _memory_backend
    /\ \E q \in Procs : /\ pc[q] = "assign"
                        /\ loc[q].op = "memory_switch"

\* a is an initial segment of b
IsPrefix(a, b) == Len(a) <= Len(b) /\ \A i \in 1..Len(a) : a[i] = b[i]

\* the n highest-turn records of the set M
Highest(M, n) == { r \in M : Cardinality({ o \in M : o.turn > r.turn }) < n }

\* C11: the document query(S, q, L) returns the first L (all if fewer)
\* case-insensitive matches, in descending turn order, among the 2*L
\* highest-turn documents of S; when S holds at most 2*L documents the result
\* equals the relational query's result on the same data, and in every case it
\* is a prefix of that result.
C11_DocumentRefinesRelational ==
    (lastResult.op = "query" /\ lastResult.backend.cls = "FirestoreMemory") =>
        LET in == lastResult.input
            m == lastResult.value.matches
            held == { r \in LastStore : r.session_id = in.session_id }
            relational == PostgresMemory_query(LastStore, in.session_id, in.query,
                                               in.limit)
        IN  /\ TopByTurn(m, SubstringMatches(Highest(held, 2 * in.limit),
                                             in.session_id, in.query), in.limit)
            /\ Cardinality(held) <= 2 * in.limit => m = relational
            /\ IsPrefix(m, relational)

\* the backend objects get_memory_backend has constructed that the state
\* holds: bound, being assigned, or handed to a caller
LazilyConstructed ==
    { b \in ({_memory_backend, lastResult.backend}
                \cup { loc[p].obj : p \in { x \in Procs : pc[x] \in {"assign", "gmb_return"} } }
                \cup { loc[p].backend :
                         p \in { x \in Procs : pc[x] \in {"entries", "save_user",
                                                          "save_assistant"} } }) :
        b.id > 0 /\ b.by = "get_memory_backend" }

\* C12: when several requests call resolve() concurrently while the registry
\* is Unbound, get_memory_backend constructs at most one backend and every
\* caller receives that same object.
C12_ConstructedOnce == Cardinality(LazilyConstructed) <= 1

\* C13: when switch is called with a known kind and the construction of the
\* new backend fails, the error reaches the caller and the registry is what it
\* was before the call: the same active backend object and the same
\* configuration (MEMORY_BACKEND, POSTGRES_DSN, FIRESTORE_PROJECT) in the
\* environment.
C13_FailedSwitchRestores ==
    (/\ lastResult.op = "memory_switch"
     /\ ~Unrecognized(lastResult.input.backend)
     /\ lastResult.raised) =>
        lastResult.before = { [mb |-> _memory_backend, env |-> env] }

\* every assistant record (S, 2t) of the set rows has its user record (S, 2t-1)
Paired(rows) ==
    \A r \in rows :
        r.turn % 2 = 0 =>
            \E u \in rows : u.session_id = r.session_id /\ u.turn = r.turn - 1

\* C14: a memory_save saves its user entry before it attempts its assistant
\* entry and does not attempt the assistant entry when the user save raises;
\* so in every state, after failed calls and after switches too, every store
\* that holds an assistant record (S, 2t) holds the user record (S, 2t-1).
C14_UserBeforeAssistant ==
    /\ \A d \in Dsns : Paired(pg[d])
    /\ \A p \in Projects : Paired({ x.data : x \in fs[p] })
    /\ lastResult.op = "memory_save" =>
           LET sv == lastResult.saves
           IN  /\ Len(sv) >= 1 => sv[1].entry.speaker = user
               /\ (Len(sv) >= 1 /\ ~sv[1].ok) => Len(sv) = 1
               /\ Len(sv) >= 2 => /\ sv[1].ok
                                  /\ sv[2].entry.speaker = assistant
                                  /\ sv[2].entry.turn = sv[1].entry.turn + 1

\* after a switch, a memory_save whose assistant save raised: the store holds
\* the user record alone
C14_Witness ==
    /\ lastSwitch.ok
    /\ lastResult.op = "memory_save"
    /\ Len(lastResult.saves) = 2
    /\ ~lastResult.saves[2].ok
    /\ { r.turn : r \in LastStore } = {1}

\* every record under an odd turn is a user record, under an even turn an
\* assistant record
Alternating(rows) ==
    \A r \in rows : r.speaker = IF r.turn % 2 = 1 THEN user ELSE assistant

\* the records of rows that a memory_save for session S and turn t writes
KeysOf(rows, S, t) ==
    { r \in rows : r.session_id = S /\ r.turn \in {2 * t - 1, 2 * t} }

C15_Speakers ==
    /\ \A d \in Dsns : Alternating(pg[d])
    /\ \A p \in Projects : Alternating({ x.data : x \in fs[p] })

C15_OtherTurns ==
    lastResult'.op = "memory_save" =>
        \A S \in Sessions, t \in Turns :
            (S # lastResult'.input.session_id \/ t # lastResult'.input.turn) =>
                /\ \A d \in Dsns : KeysOf(pg'[d], S, t) = KeysOf(pg[d], S, t)
                /\ \A p \in Projects :
                       KeysOf({ x.data : x \in fs'[p] }, S, t)
                           = KeysOf({ x.data : x \in fs[p] }, S, t)

\* C15: after any sequence of memory_save calls every record stored under an
\* odd sequence number has speaker "user" and every record under an even one
\* has speaker "assistant"; a memory_save for session S and turn t changes no
\* record that a call for another session or another turn number writes.
C15_KeysAlternate == []C15_Speakers /\ [][C15_OtherTurns]_vars

\* a completed memory_save for turn 1 issued after the one for turn 5
C15_Witness ==
    /\ lastResult.op = "memory_save"
    /\ ~lastResult.raised
    /\ lastResult.input.turn = 1
    /\ { r.turn : r \in KeysOf(LastStore, lastResult.input.session_id, 5) } = {9, 10}
    /\ { r.turn : r \in KeysOf(LastStore, lastResult.input.session_id, 1) } = {1, 2}

C16_Step ==
    /\ lastResult'.op = "memory_switch" => (pg' = pg /\ fs' = fs)
    /\ (lastResult'.op = "memory_query" /\ ~lastResult'.raised) =>
           LET m == lastResult'.value.matches
           IN  \A i \in 1..Len(m) :
                   \E r \in Stored(_memory_backend', Stores) :
                       /\ r.session_id = lastResult'.input.session_id
                       /\ Match(r) = m[i]

Keys(rows) == { <<r.session_id, r.turn>> : r \in rows }

\* from rows to rows2 no key is lost, and a record changes or appears only
\* under the key of a save among sv that completed
OnlySaved(rows, rows2, inst, sv) ==
    /\ Keys(rows) \subseteq Keys(rows2)
    /\ \A r \in (rows \ rows2) \cup (rows2 \ rows) :
           \E i \in 1..Len(sv) : /\ sv[i].ok
                                 /\ sv[i].backend = inst
                                 /\ SameKey(r, sv[i].entry)

C17_Step ==
    LET sv == IF lastResult'.op = "memory_save" THEN lastResult'.saves ELSE <<>>
    IN  /\ \A d \in Dsns :
               OnlySaved(pg[d], pg'[d],
                         [cls |-> "PostgresMemory", param |-> d],
                         [i \in 1..Len(sv) |->
                             [sv[i] EXCEPT !.backend = [cls |-> @.cls, param |-> @.param]]])
        /\ \A p \in Projects :
               /\ OnlySaved({ x.data : x \in fs[p] }, { x.data : x \in fs'[p] },
                            [cls |-> "FirestoreMemory", param |-> p],
                            [i \in 1..Len(sv) |->
                                [sv[i] EXCEPT !.backend = [cls |-> @.cls, param |-> @.param]]])
               /\ { x.id : x \in fs[p] } \subseteq { x.id : x \in fs'[p] }
        /\ lastResult'.op \in {"memory_query", "memory_switch"} => (pg' = pg /\ fs' = fs)

\* C17: across memory_save, memory_query and memory_switch calls a key
\* (session_id, turn) present in a store stays present in it, a save of key
\* (S, n) changes no record under another key and none in another store, and
\* memory_query changes no record.
C17_NeverDeleted == [][C17_Step]_vars

\* a completed memory_save over the records of an earlier one: both keys are
\* still there, with the new timestamps
C17_Witness ==
    /\ lastResult.op = "memory_save"
    /\ ~lastResult.raised
    /\ Cardinality(lastResult.before) = 2
    /\ Keys(LastStore) = Keys(lastResult.before)
    /\ LastStore # lastResult.before

\* C18: every record persisted through memory_save has a positive turn: for
\* every integer turn number memory_save accepts, the keys 2t-1 and 2t it
\* writes are >= 1, and no store ever holds a record with turn <= 0.
C18_PositiveTurns ==
    /\ \A d \in Dsns : \A r \in pg[d] : r.turn >= 1
    /\ \A p \in Projects : \A x \in fs[p] : x.data.turn >= 1
    /\ lastResult.op = "memory_save" =>
           \A i \in 1..Len(lastResult.saves) : lastResult.saves[i].entry.turn >= 1

====
